---- MODULE Spec2Model ----
(***************************************************************************)
(* Model of src/ip_location.py: the two module-level TTL caches, the       *)
(* location-by-address provider chain (get_location_by_ip and              *)
(* _get_location_fallback) and the venue geocoder (get_hospital_location), *)
(* as they run on several threads (Flask request threads, and the          *)
(* ThreadPoolExecutor workers of match_projects_by_location) that share    *)
(* the caches without a lock.  One action is one statement (or one run of  *)
(* statements that touch no shared state) of the source; a thread switch   *)
(* can happen between any two actions.                                     *)
(*                                                                         *)
(* Python values: None and the empty string of an argument are both        *)
(* written "" (the code tests them with `not x`); an optional float is a   *)
(* sequence, <<>> for None or a missing key, <<x>> for x; the None that    *)
(* get_hospital_location returns is NoneValue.  Text is ASCII: "ZhongGuo"  *)
(* stands for the two-character country name that line 140 writes.         *)
(***************************************************************************)
EXTENDS Integers, Sequences, FiniteSets, Bags, TLC

\* ---------------------------------------------------------------- bounds
\* Number of threads that may be inside the module at once.
NumThreads == 2
\* Number of calls (of either function) one behaviour may start.
MaxCalls == 3
\* Number of times the clock is seen to advance.
MaxTicks == 1
\* Capacities of the caches, scaled down from the literals 100 (lines 150,
\* 192, 229) and 200 (line 385); the comparisons of the code are kept.
LocationCacheMax == 1
HospitalCacheMax == 1
\* Number of projects of one call of match_projects_by_location.
MaxProjects == 2

\* ------------------------------------------------------ program constants
\* _cache_ttl
CacheTtl == 3600


\* ----------------------------------------------------------------- inputs
\* Addresses a caller may pass; "" is the call without an address.
IPs == {"1.0.0.1", "8.8.8.8"}
HomeIPs == {"1.0.0.1"}
\* Venue fields as match_projects_by_location passes them (already stripped).
HospitalNames == {"", "a"}
ProjectNames == {"", "a_b"}
CityHints == {"", "b_"}
\* The clock is seen to advance by more than the TTL at a time, so that an
\* entry is met at the age 0 (fresh) and at an age that exceeds the TTL.
TickStep == CacheTtl + 1

\* What one HTTP request to a provider can come to.
\*   "exc"   requests.get or response.json() raises (timeout, network, bad body)
\*   "http"  a status code other than 200
\*   "fail"  a 200 body that reports failure
\*   "empty" a 200 body that reports success and names no city and no region
\*   "ok"    a 200 body that reports success and names the place
Outcomes == {"exc", "http", "fail", "empty", "ok"}
\* Further outcomes of the geocoding request of get_hospital_location:
\*   "noloc" the first geocode has no 'location'
\*   "bad"   the body cannot be read as the code reads it (no geocodes, a
\*           location that is not "lon,lat"): an exception inside the try
GeoOutcomes == Outcomes \cup {"noloc", "bad"}

VARIABLES
    api_key,         \* Config.AMAP_API_KEY is non-empty
    now,             \* what time.time() returns
    started,         \* calls started so far
    location_cache,  \* _location_cache, in dict (insertion) order
    hospital_cache,  \* _hospital_cache, in dict (insertion) order
    running,         \* the frames of the calls in flight, one per thread
    returned,        \* the call that returned in the last step, if any
    \* One call of match_projects_by_location:
    location_info,      \* its first argument
    projects,           \* its second argument
    geocoder,           \* which answers get_hospital_location has in this run
    match_pc,           \* where the calling thread is
    valid_projects,     \* valid_projects
    futures,            \* the futures of the pool, in submission order
    hospital_locations, \* hospital_locations
    idx,                \* position of the scoring loop in valid_projects
    matched_projects,   \* matched_projects
    match_ret,          \* the list returned, once match_pc is "done"
    distance_call       \* calls of calculate_distance from outside the module

\* The threads are alike and hold no state but the frame of the call they
\* are in, so the frames in flight are kept as a bag.  A frame:
\*   pc         where the thread is
\*   fn         the function it is in
\*   key        ip_address (get_location_by_ip), cache_key (get_hospital_location)
\*   query      query_keyword as sent to the geocoder
\*   stage      the provider block it is in
\*   rec        location_result
\*   oldest     oldest_key
\*   iter_size  the size of the dict when min() began to iterate
\*   calls      the provider requests of this call so far, in order
\*   ret        the value returned
cacheVars == <<api_key, now, started, location_cache, hospital_cache, running,
               returned>>
matchVars == <<location_info, projects, geocoder, match_pc, valid_projects,
               futures, hospital_locations, idx, matched_projects, match_ret>>
vars == <<api_key, now, started, location_cache, hospital_cache, running,
          returned, location_info, projects, geocoder, match_pc,
          valid_projects, futures, hospital_locations, idx, matched_projects,
          match_ret, distance_call>>

\* ----------------------------------------------------------------- values
NoneValue == [none |-> TRUE]

\* The dict built at lines 137-146, 177-188, 214-225 and 262-273, without the
\* fields no code of the module reads again (adcode, rectangle, timezone, isp).
LocationResult(city, region, country, code, ip, lat, lon) ==
    [city |-> city, region |-> region, country |-> country,
     country_code |-> code, ip |-> ip, latitude |-> lat, longitude |-> lon,
     success |-> TRUE]

\* A failure record that does not carry the address looked up.
FailureResult_NoAddress(ip_address) ==
    [city |-> "", region |-> "", country |-> "", country_code |-> "",
     ip |-> "", latitude |-> <<>>, longitude |-> <<>>, success |-> FALSE]

\* The dict returned at lines 280-287; it has no latitude or longitude key.
FailureResult(ip_address) ==
    [city |-> "", region |-> "", country |-> "", country_code |-> "",
     ip |-> ip_address, latitude |-> <<>>, longitude |-> <<>>,
     success |-> FALSE]

\* The dict built at lines 371-379.
HospitalResult(city, region, district, address, lat, lon) ==
    [city |-> city, region |-> region, district |-> district,
     formatted_address |-> address, latitude |-> lat, longitude |-> lon,
     success |-> TRUE]

\* ------------------------------------------------------------ the two dicts
\* A dict is the sequence of its items in insertion order, each item
\* [key, val, ts] for  key: (val, ts).
CacheKeys(cache) == {cache[i].key : i \in 1..Len(cache)}

\* key in cache
CacheHas(cache, k) == k \in CacheKeys(cache)

\* cache[key], for a key that is in it
CacheGet(cache, k) ==
    cache[CHOOSE i \in 1..Len(cache) : cache[i].key = k]

\* cache[key] = (val, ts): a key that is in the dict keeps its place
CachePut(cache, k, v, ts) ==
    IF CacheHas(cache, k)
    THEN [i \in 1..Len(cache) |->
            IF cache[i].key = k THEN [key |-> k, val |-> v, ts |-> ts]
            ELSE cache[i]]
    ELSE Append(cache, [key |-> k, val |-> v, ts |-> ts])

\* del cache[key], for a key that is in it
CacheDel(cache, k) == SelectSeq(cache, LAMBDA e : e.key # k)

\* min(cache.items(), key=lambda x: x[1][1])[0]: the first item, in dict
\* order, among those with the smallest timestamp
OldestKey(cache) ==
    cache[CHOOSE i \in 1..Len(cache) :
            /\ \A j \in 1..Len(cache) : cache[i].ts <= cache[j].ts
            /\ \A j \in 1..(i - 1) : cache[j].ts > cache[i].ts].key

\* time.time() - timestamp < _cache_ttl
Fresh(timestamp, t) == t - timestamp < CacheTtl

\* -------------------------------------------------------------- providers
\* The address get_public_ip finds for this server.
PublicIP == "1.0.0.1"

\* What the providers know of an address ("" is the server's own).
Place(ip) ==
    IF ip \in HomeIPs \/ ip = ""
    THEN [city |-> "Beijing", zh |-> "BeijingShi", code |-> "CN",
          name |-> "China", lat |-> <<3990>>, lon |-> <<11640>>]
    ELSE [city |-> "Mountain View", zh |-> "", code |-> "US",
          name |-> "United States", lat |-> <<3742>>, lon |-> <<-12208>>]

\* AMap places addresses of the home country only: for any other it answers
\* with an empty province and city (the case of lines 133-135).
AmapOutcomes(ip) == IF ip \in HomeIPs THEN Outcomes ELSE Outcomes \ {"ok"}

\* Lines 118-146: the record made of an AMap body with status '1', info 'OK'
\* and a province or city.
AmapResult(ip) ==
    LocationResult(Place(ip).zh, Place(ip).zh, "ZhongGuo", "CN", ip,
                   <<>>, <<>>)

\* Lines 171-188: ipinfo.io puts the country code in 'country'.
IpinfoResult(ip) ==
    LocationResult(Place(ip).city, Place(ip).city, Place(ip).code,
                   Place(ip).code, ip, Place(ip).lat, Place(ip).lon)

\* Lines 213-225: any body without 'error' is taken, also one without city
\* and region (outcome "empty").
IpapiResult(ip, outcome) ==
    IF outcome = "empty"
    THEN LocationResult("", "", Place(ip).name, Place(ip).code, ip,
                        <<>>, <<>>)
    ELSE LocationResult(Place(ip).city, Place(ip).city, Place(ip).name,
                        Place(ip).code, ip, Place(ip).lat, Place(ip).lon)

\* Lines 261-273: data.get('ip', ip_address or '') is the address ip.sb saw.
IpsbResult(ip) ==
    LocationResult(Place(ip).city, Place(ip).city, Place(ip).name,
                   Place(ip).code, IF ip = "" THEN PublicIP ELSE ip,
                   Place(ip).lat, Place(ip).lon)

\* Whether the code takes the body of a provider as a success.
AmapAccepts(outcome) == outcome = "ok"
IpinfoAccepts(outcome) == outcome = "ok"
IpapiAccepts(outcome) == outcome \in {"ok", "empty"}
IpsbAccepts(outcome) == outcome = "ok"

\* ----------------------------------------------------------------- frames
\* One provider request of a call, and whether the code took its body.
Call(provider, accepted) == [provider |-> provider, ok |-> accepted]

\* A thread that is in no call.
Idle ==
    [pc |-> "idle", fn |-> "", key |-> "", query |-> "", stage |-> "",
     rec |-> NoneValue, oldest |-> "", iter_size |-> 0, calls |-> <<>>,
     ret |-> NoneValue]

\* The frame at `return value`: what the caller sees of the call.
Returned(f, value) ==
    [Idle EXCEPT !.pc = "done", !.fn = f.fn, !.key = f.key,
                 !.query = f.query, !.calls = f.calls, !.ret = value]

\* The frame when an exception leaves the function.
Raised(f) ==
    [Idle EXCEPT !.pc = "raised", !.fn = f.fn, !.key = f.key,
                 !.query = f.query, !.calls = f.calls]

\* No call returned in the last step.
NoReturn == Idle

\* The call with frame f goes on with frame g; when g is the end of the
\* call, the caller has it and the thread is free.
Goes(f, g) ==
    IF g.pc \in {"done", "raised"}
    THEN /\ running' = running (-) SetToBag({f})
         /\ returned' = g
    ELSE /\ running' = (running (-) SetToBag({f})) (+) SetToBag({g})
         /\ returned' = NoReturn

\* A thread is free, and takes the call with first frame g.
Begins(g) ==
    /\ BagCardinality(running) < NumThreads
    /\ started < MaxCalls
    /\ started' = started + 1
    /\ IF g.pc \in {"done", "raised"}
       THEN /\ running' = running
            /\ returned' = g
       ELSE /\ running' = running (+) SetToBag({g})
            /\ returned' = NoReturn

\* Nobody calls calculate_distance from outside.
NoDistance == distance_call = [pc |-> "idle"]

\* No call of match_projects_by_location is in progress.
NoMatch ==
    /\ location_info = NoneValue
    /\ projects = <<>>
    /\ geocoder = "none"
    /\ match_pc = "idle"
    /\ valid_projects = <<>>
    /\ futures = <<>>
    /\ hospital_locations = <<>>
    /\ idx = 0
    /\ matched_projects = <<>>
    /\ match_ret = <<>>

Init ==
    /\ api_key \in BOOLEAN
    /\ now = 0
    /\ started = 0
    /\ location_cache = <<>>
    /\ hospital_cache = <<>>
    /\ running = EmptyBag
    /\ returned = NoReturn
    /\ NoMatch
    /\ NoDistance

\* The clock advances.
Tick ==
    /\ now < MaxTicks * TickStep
    /\ now' = now + TickStep
    /\ returned' = NoReturn
    /\ UNCHANGED <<api_key, started, location_cache, hospital_cache, running>>

\* ------------------------------------------------------ get_location_by_ip
\* Lines 24-67 and 86-95: the address to look up; without one, what
\* get_public_ip finds (or "" when every echo service fails).
LocationEntry(ip_address, public_ip) ==
    LET f == [Idle EXCEPT !.fn = "get_location_by_ip"] IN
    IF ip_address # ""
    THEN [f EXCEPT !.key = ip_address, !.pc = "loc_check"]
    ELSE IF public_ip # ""
         THEN [f EXCEPT !.key = public_ip, !.pc = "loc_check"]
         ELSE [f EXCEPT !.pc = "loc_providers", !.stage = "ipsb"]

\* Lines 69-95: the call, with an address or without one.
CallGetLocationByIp(ip_address) ==
    /\ \E public_ip \in {PublicIP, ""} :
         Begins(LocationEntry(ip_address, public_ip))
    /\ UNCHANGED <<api_key, now, location_cache, hospital_cache>>

\* Line 99: if cache_key in _location_cache
LocCacheCheck(f) ==
    /\ f.pc = "loc_check"
    /\ Goes(f, [f EXCEPT
                  !.pc = IF CacheHas(location_cache, f.key)
                         THEN "loc_read" ELSE "loc_providers",
                  !.stage = "amap"])
    /\ UNCHANGED <<api_key, now, started, location_cache,
                   hospital_cache>>

\* A read that takes every entry for stale.
CacheRead_AllStale(cache, f, delete_pc) ==
    IF ~CacheHas(cache, f.key)
    THEN Raised(f)
    ELSE [f EXCEPT !.pc = delete_pc]

\* Lines 100-105 (319-324): result, timestamp = cache[cache_key], KeyError
\* when the key is gone; the result is returned when it is fresh.
CacheRead(cache, f, delete_pc) ==
    IF ~CacheHas(cache, f.key)
    THEN Raised(f)
    ELSE LET e == CacheGet(cache, f.key) IN
         IF Fresh(e.ts, now)
         THEN Returned(f, e.val)
         ELSE [f EXCEPT !.pc = delete_pc]

LocCacheRead(f) ==
    /\ f.pc = "loc_read"
    /\ Goes(f, CacheRead(location_cache, f, "loc_delete"))
    /\ UNCHANGED <<api_key, now, started, location_cache,
                   hospital_cache>>

\* Line 106: del _location_cache[cache_key]  (outside every try)
LocCacheDelete(f) ==
    /\ f.pc = "loc_delete"
    /\ IF CacheHas(location_cache, f.key)
       THEN /\ location_cache' = CacheDel(location_cache, f.key)
            /\ Goes(f, [f EXCEPT !.pc = "loc_providers",
                                         !.stage = "amap"])
       ELSE /\ location_cache' = location_cache
            /\ Goes(f, Raised(f))
    /\ UNCHANGED <<api_key, now, started, hospital_cache>>

\* The request of a provider block is made and its body is taken: the
\* record goes to the cache write of the block.
Accepted(f, block, result) ==
    [f EXCEPT !.calls = Append(@, Call(block, TRUE)), !.stage = block,
              !.rec = result, !.pc = "loc_put"]

\* The request of a provider block is made and fails.
Failed(f, block) == [f EXCEPT !.calls = Append(@, Call(block, FALSE))]

\* A fallback whose failure record goes through a cache write like the
\* records of the blocks before it.
Fallback_CachesFailure(f) ==
    { Accepted(f, "ipsb", FailureResult(f.key)) : o \in
        {outcome \in Outcomes : ~IpsbAccepts(outcome)} }
    \cup
    { Returned([f EXCEPT !.calls = Append(@, Call("ipsb", TRUE))],
               IpsbResult(f.key)) : o \in
        {outcome \in Outcomes : IpsbAccepts(outcome)} }

\* Lines 241-287: _get_location_fallback: ip.sb, whose record is returned
\* without a cache write, or the failure record.
Fallback(f) ==
    { Returned(Failed(f, "ipsb"), FailureResult(f.key)) : o \in
        {outcome \in Outcomes : ~IpsbAccepts(outcome)} }
    \cup
    { Returned([f EXCEPT !.calls = Append(@, Call("ipsb", TRUE))],
               IpsbResult(f.key)) : o \in
        {outcome \in Outcomes : IpsbAccepts(outcome)} }

\* Lines 204-236 and 239: ipapi.co, then the fallback.
IpapiBlock(f) ==
    UNION { IF IpapiAccepts(outcome)
            THEN {Accepted(f, "ipapi", IpapiResult(f.key, outcome))}
            ELSE Fallback(Failed(f, "ipapi")) : outcome \in Outcomes }

\* Lines 162-201: ipinfo.io, then the next block.
IpinfoBlock(f) ==
    UNION { IF IpinfoAccepts(outcome)
            THEN {Accepted(f, "ipinfo", IpinfoResult(f.key))}
            ELSE IpapiBlock(Failed(f, "ipinfo")) : outcome \in Outcomes }

\* A keyed block that sends its request whether or not a key is configured.
AmapBlock_NoKeyTest(f) ==
    UNION { IF AmapAccepts(outcome)
            THEN {Accepted(f, "amap", AmapResult(f.key))}
            ELSE IpinfoBlock(Failed(f, "amap")) :
            outcome \in AmapOutcomes(f.key) }

\* Lines 110-159: the keyed provider, skipped without a key, then the next
\* block.
AmapBlock(f) ==
    IF api_key
    THEN UNION { IF AmapAccepts(outcome)
                 THEN {Accepted(f, "amap", AmapResult(f.key))}
                 ELSE IpinfoBlock(Failed(f, "amap")) :
                 outcome \in AmapOutcomes(f.key) }
    ELSE IpinfoBlock(f)

\* The frames the provider chain can come to from the block f.stage on: a
\* record on its way to the cache, or the return of the fallback.  The
\* requests are made one after the other and touch no shared state.
Providers(f) ==
    CASE f.stage = "amap" -> AmapBlock(f)
      [] f.stage = "ipinfo" -> IpinfoBlock(f)
      [] f.stage = "ipapi" -> IpapiBlock(f)
      [] OTHER -> Fallback(f)

\* Lines 108-239: the provider chain.
LocProviders(f) ==
    /\ f.pc = "loc_providers"
    /\ \E g \in Providers(f) : Goes(f, g)
    /\ UNCHANGED <<api_key, now, started, location_cache,
                   hospital_cache>>

\* The block that runs after an exception is caught in a provider block
\* (lines 156, 200, 235).
NextBlock(block) ==
    CASE block = "amap" -> "ipinfo"
      [] block = "ipinfo" -> "ipapi"
      [] OTHER -> "ipsb"

\* An exception in the cache code of a provider block: the except of the
\* block catches it and the chain goes on with the next block.
Caught(f) == [f EXCEPT !.pc = "loc_providers", !.stage = NextBlock(f.stage)]

\* Lines 149, 191, 228:
\* _location_cache[ip_address] = (location_result, time.time())
LocPut(f) ==
    /\ f.pc = "loc_put"
    /\ location_cache' = CachePut(location_cache, f.key,
                                  f.rec, now)
    /\ Goes(f, [f EXCEPT !.pc = "loc_len"])
    /\ UNCHANGED <<api_key, now, started, hospital_cache>>

\* Lines 150, 192, 229: if len(_location_cache) > 100; else the return of
\* lines 153, 195, 232.
LocLen(f) ==
    /\ f.pc = "loc_len"
    /\ Goes(f, IF Len(location_cache) > LocationCacheMax
               THEN [f EXCEPT !.pc = "loc_min"]
               ELSE Returned(f, f.rec))
    /\ UNCHANGED <<api_key, now, started, location_cache,
                   hospital_cache>>

\* Lines 151, 193, 230: min() begins to iterate over the items.
LocMinBegin(f) ==
    /\ f.pc = "loc_min"
    /\ Goes(f, [f EXCEPT !.iter_size = Len(location_cache),
                                 !.pc = "loc_min_end"])
    /\ UNCHANGED <<api_key, now, started, location_cache,
                   hospital_cache>>

\* min() ends: oldest_key; RuntimeError when the dict changed size during
\* the iteration, ValueError when it is empty.
MinEnd(cache, f, evict_pc, error) ==
    IF Len(cache) = f.iter_size /\ cache # <<>>
    THEN [f EXCEPT !.oldest = OldestKey(cache), !.pc = evict_pc]
    ELSE error

\* Lines 151, 193, 230
LocMinEnd(f) ==
    /\ f.pc = "loc_min_end"
    /\ Goes(f, MinEnd(location_cache, f, "loc_evict",
                      Caught(f)))
    /\ UNCHANGED <<api_key, now, started, location_cache,
                   hospital_cache>>

\* Lines 152-153, 194-195, 231-232: del _location_cache[oldest_key] and the
\* return; KeyError when the key is gone, caught by the block's except.
LocEvict(f) ==
    /\ f.pc = "loc_evict"
    /\ IF CacheHas(location_cache, f.oldest)
       THEN /\ location_cache' = CacheDel(location_cache, f.oldest)
            /\ Goes(f, Returned(f, f.rec))
       ELSE /\ location_cache' = location_cache
            /\ Goes(f, Caught(f))
    /\ UNCHANGED <<api_key, now, started, hospital_cache>>

\* --------------------------------------------------- get_hospital_location
\* What the geocoder answers for an address it finds: the first geocode.
GeocodeResult(address) ==
    HospitalResult("BeijingShi", "BeijingShi", "ChaoyangQu", address,
                   <<3992>>, <<11641>>)

\* Lines 303-330: without a key, or without a name, None at once; else the
\* cache key and the query.
HospitalEntry(hospital_name, project_name, city) ==
    LET f == [Idle EXCEPT !.fn = "get_hospital_location"]
        query_keyword == IF hospital_name # "" THEN hospital_name
                         ELSE project_name
    IN  IF ~api_key \/ query_keyword = ""
        THEN Returned(f, NoneValue)
        ELSE [f EXCEPT !.key = query_keyword \o "_" \o city,
                       !.query = city \o query_keyword,
                       !.pc = "hosp_check"]

\* Lines 289-330: the call.
CallGetHospitalLocation(hospital_name, project_name, city) ==
    /\ Begins(HospitalEntry(hospital_name, project_name, city))
    /\ UNCHANGED <<api_key, now, location_cache, hospital_cache>>

\* Line 318: if cache_key in _hospital_cache
HospCacheCheck(f) ==
    /\ f.pc = "hosp_check"
    /\ Goes(f, [f EXCEPT
                  !.pc = IF CacheHas(hospital_cache, f.key)
                         THEN "hosp_read" ELSE "hosp_geocode"])
    /\ UNCHANGED <<api_key, now, started, location_cache,
                   hospital_cache>>

\* Lines 319-324
HospCacheRead(f) ==
    /\ f.pc = "hosp_read"
    /\ Goes(f, CacheRead(hospital_cache, f, "hosp_delete"))
    /\ UNCHANGED <<api_key, now, started, location_cache,
                   hospital_cache>>

\* Line 325: del _hospital_cache[cache_key]  (outside the try)
HospCacheDelete(f) ==
    /\ f.pc = "hosp_delete"
    /\ IF CacheHas(hospital_cache, f.key)
       THEN /\ hospital_cache' = CacheDel(hospital_cache, f.key)
            /\ Goes(f, [f EXCEPT !.pc = "hosp_geocode"])
       ELSE /\ hospital_cache' = hospital_cache
            /\ Goes(f, Raised(f))
    /\ UNCHANGED <<api_key, now, started, location_cache>>

\* Whether lines 346-368 take the body: status 200, status '1', a count
\* other than '0', and a location in the first geocode; a geocode without
\* city and province (outcome "empty") is taken like any other.
GeocodeAccepts(outcome) == outcome \in {"ok", "empty"}

\* Lines 335-381 and 390-398: the geocoding request; every outcome but a
\* body with a location ends in return None.
Geocode(f, outcome) ==
    IF GeocodeAccepts(outcome)
    THEN [f EXCEPT !.calls = Append(@, Call("geocode", TRUE)),
                   !.rec = IF outcome = "empty"
                           THEN [GeocodeResult(f.query) EXCEPT
                                   !.city = "", !.region = ""]
                           ELSE GeocodeResult(f.query),
                   !.pc = "hosp_put"]
    ELSE Returned(Failed(f, "geocode"), NoneValue)

HospGeocode(f) ==
    /\ f.pc = "hosp_geocode"
    /\ \E outcome \in GeoOutcomes : Goes(f, Geocode(f, outcome))
    /\ UNCHANGED <<api_key, now, started, location_cache,
                   hospital_cache>>

\* Line 383: _hospital_cache[cache_key] = (location_result, time.time())
HospPut(f) ==
    /\ f.pc = "hosp_put"
    /\ hospital_cache' = CachePut(hospital_cache, f.key,
                                  f.rec, now)
    /\ Goes(f, [f EXCEPT !.pc = "hosp_len"])
    /\ UNCHANGED <<api_key, now, started, location_cache>>

\* Line 385: if len(_hospital_cache) > 200; else the return of line 389.
HospLen(f) ==
    /\ f.pc = "hosp_len"
    /\ Goes(f, IF Len(hospital_cache) > HospitalCacheMax
               THEN [f EXCEPT !.pc = "hosp_min"]
               ELSE Returned(f, f.rec))
    /\ UNCHANGED <<api_key, now, started, location_cache,
                   hospital_cache>>

\* Line 386: min() begins to iterate over the items.
HospMinBegin(f) ==
    /\ f.pc = "hosp_min"
    /\ Goes(f, [f EXCEPT !.iter_size = Len(hospital_cache),
                                 !.pc = "hosp_min_end"])
    /\ UNCHANGED <<api_key, now, started, location_cache,
                   hospital_cache>>

\* Line 386; an exception is caught at line 394: return None.
HospMinEnd(f) ==
    /\ f.pc = "hosp_min_end"
    /\ Goes(f, MinEnd(hospital_cache, f, "hosp_evict",
                      Returned(f, NoneValue)))
    /\ UNCHANGED <<api_key, now, started, location_cache,
                   hospital_cache>>

\* Lines 387-389: del _hospital_cache[oldest_key] and the return; KeyError
\* when the key is gone, caught at line 394: return None.
HospEvict(f) ==
    /\ f.pc = "hosp_evict"
    /\ IF CacheHas(hospital_cache, f.oldest)
       THEN /\ hospital_cache' = CacheDel(hospital_cache, f.oldest)
            /\ Goes(f, Returned(f, f.rec))
       ELSE /\ hospital_cache' = hospital_cache
            /\ Goes(f, Returned(f, NoneValue))
    /\ UNCHANGED <<api_key, now, started, location_cache>>

\* ------------------------------------------------------------------ system
Next ==
    \/ Tick /\ UNCHANGED <<matchVars, distance_call>>
    \/ \E ip_address \in IPs \cup {""} : CallGetLocationByIp(ip_address) /\ UNCHANGED <<matchVars, distance_call>>
    \/ \E hospital_name \in HospitalNames, project_name \in ProjectNames,
          city \in CityHints :
         CallGetHospitalLocation(hospital_name, project_name, city) /\ UNCHANGED <<matchVars, distance_call>>
    \/ \E f \in BagToSet(running) : LocCacheCheck(f) /\ UNCHANGED <<matchVars, distance_call>>
    \/ \E f \in BagToSet(running) : LocCacheRead(f) /\ UNCHANGED <<matchVars, distance_call>>
    \/ \E f \in BagToSet(running) : LocCacheDelete(f) /\ UNCHANGED <<matchVars, distance_call>>
    \/ \E f \in BagToSet(running) : LocProviders(f) /\ UNCHANGED <<matchVars, distance_call>>
    \/ \E f \in BagToSet(running) : LocPut(f) /\ UNCHANGED <<matchVars, distance_call>>
    \/ \E f \in BagToSet(running) : LocLen(f) /\ UNCHANGED <<matchVars, distance_call>>
    \/ \E f \in BagToSet(running) : LocMinBegin(f) /\ UNCHANGED <<matchVars, distance_call>>
    \/ \E f \in BagToSet(running) : LocMinEnd(f) /\ UNCHANGED <<matchVars, distance_call>>
    \/ \E f \in BagToSet(running) : LocEvict(f) /\ UNCHANGED <<matchVars, distance_call>>
    \/ \E f \in BagToSet(running) : HospCacheCheck(f) /\ UNCHANGED <<matchVars, distance_call>>
    \/ \E f \in BagToSet(running) : HospCacheRead(f) /\ UNCHANGED <<matchVars, distance_call>>
    \/ \E f \in BagToSet(running) : HospCacheDelete(f) /\ UNCHANGED <<matchVars, distance_call>>
    \/ \E f \in BagToSet(running) : HospGeocode(f) /\ UNCHANGED <<matchVars, distance_call>>
    \/ \E f \in BagToSet(running) : HospPut(f) /\ UNCHANGED <<matchVars, distance_call>>
    \/ \E f \in BagToSet(running) : HospLen(f) /\ UNCHANGED <<matchVars, distance_call>>
    \/ \E f \in BagToSet(running) : HospMinBegin(f) /\ UNCHANGED <<matchVars, distance_call>>
    \/ \E f \in BagToSet(running) : HospMinEnd(f) /\ UNCHANGED <<matchVars, distance_call>>
    \/ \E f \in BagToSet(running) : HospEvict(f) /\ UNCHANGED <<matchVars, distance_call>>

Spec == Init /\ [][Next]_vars

\* ------------------------------------------------------------------- text
\* The strings that match_projects_by_location compares are sequences of
\* characters.  A Chinese character is written as its pinyin syllable
\* ("shi" is the suffix of a city name, "sheng" of a province), a Latin
\* letter as itself, the blank as " ".
\* str.lower() on one character.
LowerChar(c) ==
    CASE c = "B" -> "b"
      [] c = "C" -> "c"
      [] c = "J" -> "j"
      [] c = "N" -> "n"
      [] c = "U" -> "u"
      [] c = "S" -> "s"
      [] OTHER -> c

\* str.lower()
Lower(s) == [i \in 1..Len(s) |-> LowerChar(s[i])]

\* str.strip()
RECURSIVE LStrip(_)
LStrip(s) == IF s # <<>> /\ Head(s) = " " THEN LStrip(Tail(s)) ELSE s
RECURSIVE RStrip(_)
RStrip(s) ==
    IF s # <<>> /\ s[Len(s)] = " " THEN RStrip(SubSeq(s, 1, Len(s) - 1)) ELSE s
Strip(s) == RStrip(LStrip(s))

\* str.replace(old, ''): the occurrences of old, left to right, not
\* overlapping, are removed.
RECURSIVE Remove(_, _)
Remove(s, old) ==
    IF Len(s) < Len(old) THEN s
    ELSE IF SubSeq(s, 1, Len(old)) = old
         THEN Remove(SubSeq(s, Len(old) + 1, Len(s)), old)
         ELSE <<Head(s)>> \o Remove(Tail(s), old)

\* `sub in s`
Contains(sub, s) ==
    \E i \in 1..(Len(s) - Len(sub) + 1) : SubSeq(s, i, i + Len(sub) - 1) = sub

\* The chain of replace calls of lines 496 and 583 (and 661).
CityNormalized(lower) ==
    Remove(Remove(Remove(Remove(Remove(Remove(lower,
        <<"shi">>), <<"xian">>), <<"qu">>), <<"zi", "zhi", "zhou">>),
        <<"di", "qu">>), <<"meng">>)

\* The chain of replace calls of lines 497 and 584.
RegionNormalized(lower) ==
    Remove(Remove(Remove(Remove(Remove(Remove(Remove(lower,
        <<"sheng">>), <<"shi">>), <<"zi", "zhi", "qu">>),
        <<"te", "bie", "xing", "zheng", "qu">>), <<"wei", "wu", "er">>),
        <<"hui", "zu">>), <<"zhuang", "zu">>)

\* Line 500: the client's country is known and is not the home country.
IsVpn(ip_country_lower) ==
    /\ ip_country_lower # <<>>
    /\ ~Contains(<<"c", "h", "i", "n", "a">>, ip_country_lower)
    /\ ~Contains(<<"zhong", "guo">>, ip_country_lower)

\* The characters of the country names and codes the providers of
\* get_location_by_ip write into 'country' (lines 140, 180, 217, 266), as
\* match_projects_by_location reads them at line 461.
Characters(country) ==
    CASE country = "ZhongGuo" -> <<"zhong", "guo">>
      [] country = "China" -> <<"C", "h", "i", "n", "a">>
      [] country = "CN" -> <<"C", "N">>
      [] country = "US" -> <<"U", "S">>
      [] country = "United States" ->
            <<"U", "n", "i", "t", "e", "d", " ", "S", "t", "a", "t", "e", "s">>
      [] OTHER -> <<>>

\* Truth value of an optional float: None and 0.0 are false.
Truthy(x) == x # <<>> /\ x[1] # 0

\* ---------------------------------------------------------------- scoring
\* Coordinates are whole thousandths of a degree.  Lengths are whole metres;
\* R * pi / 180 = 111.195 km is the length of one degree of a meridian.
MetresPerDegree == 111195

Abs(x) == IF x < 0 THEN -x ELSE x

\* Lines 400-429, for two points of one meridian (delta_lon = 0), where the
\* haversine formula comes to R * |delta_lat|: None (<<>>) unless the four
\* arguments are all true, else the distance.
calculate_distance(lat1, lon1, lat2, lon2) ==
    IF ~(Truthy(lat1) /\ Truthy(lon1) /\ Truthy(lat2) /\ Truthy(lon2))
    THEN <<>>
    ELSE <<(MetresPerDegree * Abs(lat2[1] - lat1[1])) \div 1000>>

\* The if/elif chain of lines 591-608 (city) and 611-628 (region): a and b
\* are the lowered strings, an and bn the normalized ones, points the four
\* amounts.
TextTier_Stacking(a, b, an, bn, points) ==
    IF a = <<>> \/ b = <<>> THEN 0
    ELSE (IF a = b THEN points[1] ELSE 0)
         + (IF Contains(a, b) \/ Contains(b, a) THEN points[3] ELSE 0)

TextTier(a, b, an, bn, points) ==
    IF a = <<>> \/ b = <<>> THEN 0
    ELSE IF a = b THEN points[1]
    ELSE IF an # <<>> /\ bn # <<>> /\ an = bn THEN points[2]
    ELSE IF Contains(a, b) \/ Contains(b, a) THEN points[3]
    ELSE IF an # <<>> /\ bn # <<>> /\ (Contains(an, bn) \/ Contains(bn, an))
         THEN points[4]
    ELSE 0

\* Lines 591-608.
CityTier(ip_city_lower, hospital_city_lower) ==
    TextTier(ip_city_lower, hospital_city_lower,
             CityNormalized(ip_city_lower),
             CityNormalized(hospital_city_lower), <<50, 45, 40, 35>>)

\* Lines 611-628.
RegionTier(ip_region_lower, hospital_region_lower) ==
    TextTier(ip_region_lower, hospital_region_lower,
             RegionNormalized(ip_region_lower),
             RegionNormalized(hospital_region_lower), <<30, 25, 20, 15>>)

\* Lines 631-633: distance_km.
DistanceKm(info, venue) ==
    IF Truthy(info.latitude) /\ Truthy(info.longitude)
       /\ Truthy(venue.latitude) /\ Truthy(venue.longitude)
    THEN calculate_distance(info.latitude, info.longitude,
                            venue.latitude, venue.longitude)
    ELSE <<>>

\* Lines 633-652, on the distance in metres.
DistanceTier(distance_km) ==
    IF distance_km = <<>> THEN 0
    ELSE IF distance_km[1] <= 10000 THEN 30
    ELSE IF distance_km[1] <= 50000 THEN 20
    ELSE IF distance_km[1] <= 100000 THEN 10
    ELSE IF distance_km[1] <= 200000 THEN 5
    ELSE 0

\* A list that a provider gave in the place of a string; the lists of the
\* inputs are empty.
EmptyList == <<"[]">>
IsList(x) == x # <<>> /\ Head(x) = "[]"

\* Lines 463-476: the string for a raw field of the client, '' for a list
\* that is empty.
Scalar(raw) == IF IsList(raw) THEN <<>> ELSE raw

\* Lines 459-497: the client's city, region and country as compared.
IpCityLower(info) == Lower(Strip(Scalar(info.city)))
IpRegionLower(info) == Lower(Strip(Scalar(info.region)))
IpCountryLower(info) == Lower(Strip(Scalar(info.country)))

\* Lines 576-652: the score against a geocoded venue.
VenueScore(info, venue) ==
    CityTier(IpCityLower(info), Lower(Strip(venue.city)))
    + RegionTier(IpRegionLower(info), Lower(Strip(venue.region)))
    + DistanceTier(DistanceKm(info, venue))

\* The chain with the normalized strings compared first.
FallbackCityTier_NormalizedFirst(a, b, an, bn) ==
    IF a = <<>> \/ b = <<>> THEN 0
    ELSE IF a = b THEN 30
    ELSE IF an # <<>> /\ bn # <<>> /\ an = bn THEN 28
    ELSE IF Contains(a, b) \/ Contains(b, a) THEN 25
    ELSE IF an # <<>> /\ bn # <<>>
            /\ (Contains(an, bn) \/ Contains(bn, an)) THEN 22
    ELSE 0

\* Lines 664-675: the city of the client against the region the project
\* was configured with.
FallbackCityTier(a, b, an, bn) ==
    IF a = <<>> \/ b = <<>> THEN 0
    ELSE IF a = b THEN 30
    ELSE IF Contains(a, b) \/ Contains(b, a) THEN 25
    ELSE IF an # <<>> /\ bn # <<>>
         THEN (IF an = bn THEN 28
               ELSE IF Contains(an, bn) \/ Contains(bn, an) THEN 22
               ELSE 0)
    ELSE 0

\* Lines 677-683: the client's city and region looked for in the names.
NameTier(info, project) ==
    LET search_text == Lower(Strip(project.name) \o <<" ">>
                             \o Strip(project.hospital_name))
        city == CityNormalized(IpCityLower(info))
        region == RegionNormalized(IpRegionLower(info))
    IN  (IF Len(city) >= 2 /\ Contains(city, search_text) THEN 15 ELSE 0)
        + (IF Len(region) >= 2 /\ Contains(region, search_text) THEN 10
           ELSE 0)

\* Lines 654-683: the score without a geocoded venue.
FallbackScore(info, project) ==
    LET project_region_lower == Lower(Strip(project.region))
    IN  FallbackCityTier(IpCityLower(info), project_region_lower,
                         CityNormalized(IpCityLower(info)),
                         CityNormalized(project_region_lower))
        + NameTier(info, project)

\* Line 688, int(score * 0.7): the product is a double, and for 90, 170 and
\* 180 it falls just below the whole number 0.7 * score.
VpnPenalty(score) ==
    IF score \in {90, 170, 180} THEN (7 * score) \div 10 - 1
    ELSE (7 * score) \div 10

\* Line 574: the venue was geocoded.
Geocoded(hospital_location) ==
    hospital_location # NoneValue /\ hospital_location.success

\* Lines 571-689: distance_km and the final score of one project.
ProjectDistance(info, hospital_location) ==
    IF Geocoded(hospital_location) THEN DistanceKm(info, hospital_location)
    ELSE <<>>

ProjectScore(info, project, hospital_location) ==
    LET score == IF Geocoded(hospital_location)
                 THEN VenueScore(info, hospital_location)
                 ELSE FallbackScore(info, project)
    IN  IF IsVpn(IpCountryLower(info)) THEN VpnPenalty(score) ELSE score

\* The key without the distance.
KeyLess_ScoreOnly(x, y) == x.score > y.score

\* The key of line 705-708 orders x before y.
KeyLess(x, y) ==
    \/ x.score > y.score
    \/ /\ x.score = y.score
       /\ x.distance_km # <<>>
       /\ y.distance_km = <<>> \/ x.distance_km[1] < y.distance_km[1]

\* list.sort (stable): x goes after the items that are not after it.
RECURSIVE Insert(_, _)
Insert(sorted, x) ==
    IF sorted = <<>> THEN <<x>>
    ELSE IF KeyLess(x, Head(sorted)) THEN <<x>> \o sorted
    ELSE <<Head(sorted)>> \o Insert(Tail(sorted), x)

RECURSIVE Sorted(_)
Sorted(items) ==
    IF items = <<>> THEN <<>>
    ELSE Insert(Sorted(SubSeq(items, 1, Len(items) - 1)), items[Len(items)])

\* ------------------------------------------ match_projects_by_location
\* Line 22: _max_workers, the size of the pool.
MaxWorkers == 5

\* Names of places.  "bei jing shi" is a city with its suffix, "he bei
\* sheng" a province with its suffix.
BeiJing == <<"bei", "jing">>
BeiJingShi == <<"bei", "jing", "shi">>
HeBei == <<"he", "bei">>
HeBeiSheng == <<"he", "bei", "sheng">>
China == <<"C", "h", "i", "n", "a">>
\* One longitude, so that the points lie on one meridian.
Meridian == 116400

\* A project as Project.to_dict() gives it; the ids are primary keys.
Project(id, name, hospital_name, region) ==
    [id |-> id, name |-> name, hospital_name |-> hospital_name,
     region |-> region]

\* Projects without a name and a venue, with a venue, and with a name and a
\* configured region only.
BlankProject(id) == Project(id, <<" ">>, <<>>, <<>>)
VenueProject(id) == Project(id, <<>>, <<"x">>, <<>>)
NamedProject(id) == Project(id, BeiJing \o <<"xiang", "mu">>, <<>>, BeiJing)
ProjectKinds(id) == {BlankProject(id), VenueProject(id), NamedProject(id)}

\* A geocoded venue.
Venue(city, region, lat, lon) ==
    HospitalResult(city, region, <<>>, <<>>, lat, lon)

\* Clients: the records get_location_by_ip can return.
Client(city, region, country, lat, lon) ==
    LocationResult(city, region, country, <<>>, "1.0.0.1", lat, lon)
HomeClient == Client(BeiJingShi, HeBeiSheng, China, <<50>>, <<Meridian>>)
VpnClient == Client(BeiJingShi, HeBeiSheng, <<"U", "S">>, <<50>>, <<Meridian>>)
\* The record of lines 280-287, its strings as sequences of characters.
FailedClient ==
    [Client(<<>>, <<>>, <<>>, <<>>, <<>>) EXCEPT !.success = FALSE]

ClientCities == {<<>>, BeiJingShi, <<"B", "J">>, <<"shi">>}
ClientRegions == {<<>>, HeBeiSheng}
ClientCountries == {China, <<"U", "S">>}
ClientPoints ==
    {<<<<>>, <<>>>>, <<<<0>>, <<Meridian>>>>, <<<<50>>, <<Meridian>>>>,
     <<<<50>>, <<0>>>>}
Clients ==
    {Client(city, region, country, point[1], point[2]) :
        city \in ClientCities, region \in ClientRegions,
        country \in ClientCountries, point \in ClientPoints}

\* Venues: what the geocoder can answer.  Against the client at 0.050
\* degrees the latitudes are at 0, 89, 90, 449, 450, 899, 900, 1798 and 1799
\* thousandths, the two sides of 10, 50, 100 and 200 km.
VenueCities ==
    {<<>>, BeiJing, BeiJingShi, <<"jing", "shi">>, <<"jing", "qu">>,
     <<"qu">>, <<"b", "j">>, <<"shi">>}
VenueRegions ==
    {<<>>, HeBei, HeBeiSheng, <<"bei", "sheng">>, <<"bei", "shi">>, <<"su">>}
VenueLatitudes ==
    {<<>>, <<0>>, <<50>>, <<139>>, <<140>>, <<499>>, <<500>>, <<949>>,
     <<950>>, <<1848>>, <<1849>>}
VenueLongitudes == {<<>>, <<0>>, <<Meridian>>}
Venues ==
    {Venue(city, region, lat, lon) :
        city \in VenueCities, region \in VenueRegions,
        lat \in VenueLatitudes, lon \in VenueLongitudes}

\* A few venues whose scores for HomeClient are 80, 60, 60, 80 (no
\* coordinates), 10 and 5, and one on the equator.
FewVenues ==
    {Venue(BeiJingShi, <<>>, <<50>>, <<Meridian>>),
     Venue(BeiJingShi, <<>>, <<0>>, <<Meridian>>),
     Venue(BeiJingShi, <<>>, <<650>>, <<Meridian>>),
     Venue(<<"jing", "shi">>, <<>>, <<350>>, <<Meridian>>),
     Venue(BeiJingShi, HeBeiSheng, <<>>, <<>>),
     Venue(<<"hu">>, <<>>, <<650>>, <<Meridian>>),
     Venue(<<"hu">>, <<>>, <<1550>>, <<Meridian>>)}

\* get_hospital_location raised.
Raises == [raises |-> TRUE]

\* What a call of get_hospital_location can come to: a venue, None, or an
\* exception.
Answers ==
    CASE geocoder = "few" -> FewVenues \cup {NoneValue, Raises}
      [] geocoder = "one" -> {Venue(BeiJingShi, <<>>, <<50>>, <<Meridian>>)}
      [] geocoder = "any" -> Venues \cup {NoneValue}
      [] geocoder = "fails" -> {NoneValue, Raises}
      [] geocoder = "lists" ->
           {NoneValue, Raises, Venue(BeiJingShi, <<>>, <<50>>, <<Meridian>>),
            Venue(EmptyList, BeiJingShi, <<50>>, <<Meridian>>)}
      [] OTHER -> {}

\* Lists of n projects with the ids 1..n.
ProjectLists(n) ==
    {ps \in [1..n -> UNION {ProjectKinds(id) : id \in 1..n}] :
        \A i \in 1..n : ps[i].id = i}

\* dict[key] = value
DictPut(dict, key, value) ==
    [k \in DOMAIN dict \cup {key} |-> IF k = key THEN value ELSE dict[k]]

\* The call begins: no thread is in the caches, the pool does not exist.
MatchBegins ==
    /\ api_key = TRUE
    /\ now = 0
    /\ started = 0
    /\ location_cache = <<>>
    /\ hospital_cache = <<>>
    /\ running = EmptyBag
    /\ returned = NoReturn
    /\ match_pc = "entry"
    /\ valid_projects = <<>>
    /\ futures = <<>>
    /\ hospital_locations = <<>>
    /\ idx = 0
    /\ matched_projects = <<>>
    /\ match_ret = <<>>
    /\ NoDistance

\* A client that was or was not located, up to MaxProjects projects, and a
\* geocoder that finds one of a few venues, finds none, or raises.
FewInputs ==
    /\ location_info \in {HomeClient, VpnClient, FailedClient}
    /\ \E n \in 0..MaxProjects : projects \in ProjectLists(n)
    /\ geocoder = "few"

\* One project more than the pool has workers.
PoolInputs ==
    /\ location_info = HomeClient
    /\ projects = [i \in 1..(MaxWorkers + 1) |-> VenueProject(i)]
    /\ geocoder = "one"

\* One project, any client and any venue.
ScoreInputs ==
    /\ location_info \in Clients
    /\ projects = <<VenueProject(1)>>
    /\ geocoder = "any"

\* Clients and projects for the scoring without a geocoded venue: the
\* normalized city of "jing shi" has one character, and the region hint
\* of a project is the client's city, a part of it, the city with another
\* suffix, a part with another suffix, another city, or nothing.
TextClients ==
    {Client(city, region, country, <<50>>, <<Meridian>>) :
        city \in ClientCities \cup {<<"jing", "shi">>},
        region \in ClientRegions, country \in ClientCountries}
RegionHints ==
    {<<>>, BeiJingShi, BeiJing, <<"bei", "jing", "qu">>, <<"jing", "qu">>,
     <<"hu">>, <<" ", "b", "j", " ">>, <<"qu">>}
TextProjects ==
    {Project(1, name, hospital_name, region) :
        name \in {<<>>, BeiJing \o <<"xiang", "mu">>},
        hospital_name \in {<<"x">>, <<"B", "J">>,
                           HeBei \o <<"yi", "yuan">>},
        region \in RegionHints}

\* One project whose venue is not geocoded, any client.
TextInit ==
    /\ MatchBegins
    /\ location_info \in TextClients
    /\ projects \in {<<project>> : project \in TextProjects}
    /\ geocoder = "fails"

\* Providers that give lists: a client whose city is a list, and a geocoder
\* that fails, finds a venue, or finds a venue whose city is a list (as
\* for a venue in a municipality, where the province names the city).
ListInit ==
    /\ MatchBegins
    /\ location_info \in
         {HomeClient,
          Client(EmptyList, BeiJingShi, China, <<50>>, <<Meridian>>)}
    /\ \E n \in 0..MaxProjects : projects \in ProjectLists(n)
    /\ geocoder = "lists"

BatchInit == MatchBegins /\ (FewInputs \/ PoolInputs)

MatchInit == MatchBegins /\ (FewInputs \/ PoolInputs \/ ScoreInputs)

\* The entry without the test of line 454.
MatchEntry_NoSuccessTest ==
    /\ match_pc = "entry"
    /\ match_pc' = "filter"
    /\ UNCHANGED <<location_info, projects, geocoder, valid_projects, futures,
                   hospital_locations, idx, matched_projects, match_ret>>

\* Lines 454-456.
MatchEntry ==
    /\ match_pc = "entry"
    /\ IF ~location_info.success
       THEN match_pc' = "done" /\ match_ret' = <<>>
       ELSE match_pc' = "filter" /\ UNCHANGED match_ret
    /\ UNCHANGED <<location_info, projects, geocoder, valid_projects, futures,
                   hospital_locations, idx, matched_projects>>

\* Lines 509-511: the project has a name or a venue name.
IsValid(project) ==
    Strip(project.name) # <<>> \/ Strip(project.hospital_name) # <<>>

\* Lines 506-519.
FilterProjects_KeepAll ==
    /\ match_pc = "filter"
    /\ valid_projects' = projects
    /\ IF valid_projects' = <<>>
       THEN match_pc' = "done" /\ match_ret' = <<>>
       ELSE match_pc' = "submit" /\ UNCHANGED match_ret
    /\ UNCHANGED <<location_info, projects, geocoder, futures,
                   hospital_locations, idx, matched_projects>>

FilterProjects ==
    /\ match_pc = "filter"
    /\ valid_projects' = SelectSeq(projects, IsValid)
    /\ IF valid_projects' = <<>>
       THEN match_pc' = "done" /\ match_ret' = <<>>
       ELSE match_pc' = "submit" /\ UNCHANGED match_ret
    /\ UNCHANGED <<location_info, projects, geocoder, futures,
                   hospital_locations, idx, matched_projects>>

\* A future: state is "queued", "running", "returned", "raised" or
\* "collected"; value is what the call returned.
Future(state, value) == [state |-> state, value |-> value]

\* Lines 544-547: executor.submit for the next project of valid_projects;
\* after the last one the as_completed loop begins.
Submit ==
    /\ match_pc = "submit"
    /\ futures' = Append(futures, Future("queued", NoneValue))
    /\ match_pc' = IF Len(futures') = Len(valid_projects) THEN "collect"
                   ELSE "submit"
    /\ UNCHANGED <<location_info, projects, geocoder, valid_projects,
                   hospital_locations, idx, matched_projects, match_ret>>

\* The futures whose call is in progress on a worker ("missed": the call
\* is past the cache lookup and before the geocoding request).
InProgress ==
    {i \in DOMAIN futures : futures[i].state \in {"running", "missed"}}

\* Line 543, ThreadPoolExecutor(max_workers=_max_workers): a worker that is
\* free takes the oldest queued call.
StartCall_NoLimit(i) ==
    /\ futures[i].state = "queued"
    /\ \A j \in 1..(i - 1) : futures[j].state # "queued"
    /\ futures' = [futures EXCEPT ![i].state = "running"]
    /\ UNCHANGED <<location_info, projects, geocoder, match_pc, valid_projects,
                   hospital_locations, idx, matched_projects, match_ret>>

StartCall(i) ==
    /\ futures[i].state = "queued"
    /\ \A j \in 1..(i - 1) : futures[j].state # "queued"
    /\ Cardinality(InProgress) < MaxWorkers
    /\ futures' = [futures EXCEPT ![i].state = "running"]
    /\ UNCHANGED <<location_info, projects, geocoder, match_pc, valid_projects,
                   hospital_locations, idx, matched_projects, match_ret>>

\* Lines 524-537, query_hospital_location: get_hospital_location returns a
\* venue or None.
CallReturns(i) ==
    /\ futures[i].state = "running"
    /\ \E value \in Answers \ {Raises} :
         futures' = [futures EXCEPT ![i] = Future("returned", value)]
    /\ UNCHANGED <<location_info, projects, geocoder, match_pc, valid_projects,
                   hospital_locations, idx, matched_projects, match_ret>>

\* Lines 524-537: get_hospital_location raises.
CallRaises(i) ==
    /\ futures[i].state = "running"
    /\ Raises \in Answers
    /\ futures' = [futures EXCEPT ![i].state = "raised"]
    /\ UNCHANGED <<location_info, projects, geocoder, match_pc, valid_projects,
                   hospital_locations, idx, matched_projects, match_ret>>

\* The loop ends with the first future it sees.
AllCollected_Any(fs) == \E i \in DOMAIN fs : fs[i].state = "collected"

\* Every future was seen by the as_completed loop.
AllCollected(fs) ==
    Len(fs) = Len(valid_projects)
    /\ \A i \in DOMAIN fs : fs[i].state = "collected"

\* Lines 549-557: one turn of the as_completed loop, for a future that is
\* done; after the last one the pool is shut down and the scoring begins.
Collect_AbortOnError(i) ==
    /\ match_pc = "collect"
    /\ futures[i].state \in {"returned", "raised"}
    /\ hospital_locations' =
         DictPut(hospital_locations, valid_projects[i].id,
                 IF futures[i].state = "returned" THEN futures[i].value
                 ELSE NoneValue)
    /\ futures' = [futures EXCEPT ![i].state = "collected"]
    /\ IF AllCollected(futures') \/ futures[i].state = "raised"
       THEN match_pc' = "score" /\ idx' = 1
       ELSE UNCHANGED <<match_pc, idx>>
    /\ UNCHANGED <<location_info, projects, geocoder, valid_projects,
                   matched_projects, match_ret>>

Collect(i) ==
    /\ match_pc = "collect"
    /\ futures[i].state \in {"returned", "raised"}
    /\ hospital_locations' =
         DictPut(hospital_locations, valid_projects[i].id,
                 IF futures[i].state = "returned" THEN futures[i].value
                 ELSE NoneValue)
    /\ futures' = [futures EXCEPT ![i].state = "collected"]
    /\ IF AllCollected(futures')
       THEN match_pc' = "score" /\ idx' = 1
       ELSE UNCHANGED <<match_pc, idx>>
    /\ UNCHANGED <<location_info, projects, geocoder, valid_projects,
                   matched_projects, match_ret>>

\* hospital_locations.get(project_id)
DictGet(dict, key) == IF key \in DOMAIN dict THEN dict[key] ELSE NoneValue

\* The scoring loop with the threshold score > 10.
ScoreProject_Above ==
    /\ match_pc = "score"
    /\ idx <= Len(valid_projects)
    /\ LET project == valid_projects[idx]
           hospital_location == DictGet(hospital_locations, project.id)
           score == ProjectScore(location_info, project, hospital_location)
           distance_km == ProjectDistance(location_info, hospital_location)
       IN  matched_projects' =
             IF score > 10
             THEN Append(matched_projects,
                         [project |-> project, score |-> score,
                          distance_km |-> distance_km])
             ELSE matched_projects
    /\ idx' = idx + 1
    /\ UNCHANGED <<location_info, projects, geocoder, match_pc, valid_projects,
                   futures, hospital_locations, match_ret>>

\* Lines 579-580: .strip() on the city or the region of a geocoded venue
\* raises AttributeError when the geocoder gave a list for it.
StripRaises(hospital_location) ==
    /\ Geocoded(hospital_location)
    /\ IsList(hospital_location.city) \/ IsList(hospital_location.region)

\* Lines 563-702: one turn of the scoring loop; an exception of lines
\* 579-580 is not caught and ends the call.
ScoreProject ==
    /\ match_pc = "score"
    /\ idx <= Len(valid_projects)
    /\ LET project == valid_projects[idx]
           hospital_location == DictGet(hospital_locations, project.id)
           score == ProjectScore(location_info, project, hospital_location)
           distance_km == ProjectDistance(location_info, hospital_location)
       IN  IF StripRaises(hospital_location)
           THEN /\ match_pc' = "raised"
                /\ UNCHANGED <<matched_projects, idx>>
           ELSE /\ matched_projects' =
                     IF score >= 10
                     THEN Append(matched_projects,
                                 [project |-> project, score |-> score,
                                  distance_km |-> distance_km])
                     ELSE matched_projects
                /\ idx' = idx + 1
                /\ UNCHANGED match_pc
    /\ UNCHANGED <<location_info, projects, geocoder, valid_projects,
                   futures, hospital_locations, match_ret>>

\* Lines 705-715.
SortAndReturn ==
    /\ match_pc = "score"
    /\ idx > Len(valid_projects)
    /\ matched_projects' = Sorted(matched_projects)
    /\ match_ret' = [i \in DOMAIN matched_projects' |->
                       matched_projects'[i].project]
    /\ match_pc' = "done"
    /\ UNCHANGED <<location_info, projects, geocoder, valid_projects, futures,
                   hospital_locations, idx>>

MatchNext ==
    \/ MatchEntry /\ UNCHANGED <<cacheVars, distance_call>>
    \/ FilterProjects /\ UNCHANGED <<cacheVars, distance_call>>
    \/ Submit /\ UNCHANGED <<cacheVars, distance_call>>
    \/ \E i \in DOMAIN futures : StartCall(i) /\ UNCHANGED <<cacheVars, distance_call>>
    \/ \E i \in DOMAIN futures : CallReturns(i) /\ UNCHANGED <<cacheVars, distance_call>>
    \/ \E i \in DOMAIN futures : CallRaises(i) /\ UNCHANGED <<cacheVars, distance_call>>
    \/ \E i \in DOMAIN futures : Collect(i) /\ UNCHANGED <<cacheVars, distance_call>>
    \/ ScoreProject /\ UNCHANGED <<cacheVars, distance_call>>
    \/ SortAndReturn /\ UNCHANGED <<cacheVars, distance_call>>

\* ------------------------------------------- the pool on the venue cache
\* Lines 309 and 525-526: hospital_name or project_name, both stripped.
QueryKeyword(project) ==
    IF Strip(project.hospital_name) # <<>> THEN Strip(project.hospital_name)
    ELSE Strip(project.name)

\* Line 315: cache_key = f"{query_keyword}_{city or ''}"
HospitalCacheKey(project) ==
    QueryKeyword(project) \o <<"_">> \o Strip(project.region)

\* Lines 329-330: the address sent to the geocoder, f"{city}{query_keyword}".
GeocodeQuery(project) == Strip(project.region) \o QueryKeyword(project)

\* Lines 335-381: a geocoder that answers every query the same way each
\* time it is asked: None for an address it does not find, else a venue
\* of the client's city, 10 km or 100 km from the HomeClient.
GeocoderFinds(query) ==
    LET near == Venue(BeiJingShi, <<>>, <<140>>, <<Meridian>>)
        far == Venue(BeiJingShi, <<>>, <<950>>, <<Meridian>>)
    IN  CASE geocoder = "finds b_a" ->
               IF query = <<"b", "_", "a">> THEN near ELSE NoneValue
          [] geocoder = "finds all" ->
               IF query = <<"b", "_", "a">> THEN near ELSE far
          [] OTHER -> NoneValue

\* Projects of the pool: two whose names and region hints differ and whose
\* cache keys are the same, and one with a key of its own.
PoolProjects(id) ==
    {Project(id, <<"a", "_", "b">>, <<>>, <<>>),
     Project(id, <<"x">>, <<"a">>, <<"b", "_">>),
     Project(id, <<"x">>, <<"a">>, <<>>)}

\* A located client, up to MaxProjects projects with the ids 1..n, and a
\* geocoder whose answer depends on the query alone.
OrderInit ==
    /\ MatchBegins
    /\ location_info = HomeClient
    /\ \E n \in 0..MaxProjects :
         projects \in {ps \in [1..n -> UNION {PoolProjects(id) : id \in 1..n}] :
                         \A i \in 1..n : ps[i].id = i}
    /\ geocoder \in {"finds b_a", "finds all"}

\* Lines 318-322, in a pool worker: a hit returns the cached venue (an
\* entry put during the batch is younger than the TTL); a miss goes on to
\* the geocoder.
CacheLookup(i) ==
    /\ futures[i].state = "running"
    /\ LET cache_key == HospitalCacheKey(valid_projects[i])
       IN  futures' =
             IF CacheHas(hospital_cache, cache_key)
                /\ Fresh(CacheGet(hospital_cache, cache_key).ts, now)
             THEN [futures EXCEPT
                     ![i] = Future("returned",
                                   CacheGet(hospital_cache, cache_key).val)]
             ELSE [futures EXCEPT ![i].state = "missed"]
    /\ UNCHANGED <<cacheVars, distance_call, location_info, projects, geocoder,
                   match_pc, valid_projects, hospital_locations, idx,
                   matched_projects, match_ret>>

\* Lines 335-398, in a pool worker: the geocoding request; a venue is put
\* into the cache (which is below its capacity of 200) and returned, a
\* failure returns None.
GeocodeAndPut(i) ==
    /\ futures[i].state = "missed"
    /\ LET location_result == GeocoderFinds(GeocodeQuery(valid_projects[i]))
       IN  /\ futures' = [futures EXCEPT
                            ![i] = Future("returned", location_result)]
           /\ hospital_cache' =
                IF location_result = NoneValue THEN hospital_cache
                ELSE CachePut(hospital_cache,
                              HospitalCacheKey(valid_projects[i]),
                              location_result, now)
    /\ UNCHANGED <<api_key, now, started, location_cache, running, returned,
                   distance_call, location_info, projects, geocoder, match_pc,
                   valid_projects, hospital_locations, idx, matched_projects,
                   match_ret>>

PoolNext ==
    \/ MatchEntry /\ UNCHANGED <<cacheVars, distance_call>>
    \/ FilterProjects /\ UNCHANGED <<cacheVars, distance_call>>
    \/ Submit /\ UNCHANGED <<cacheVars, distance_call>>
    \/ \E i \in DOMAIN futures : StartCall(i) /\ UNCHANGED <<cacheVars, distance_call>>
    \/ \E i \in DOMAIN futures : CacheLookup(i)
    \/ \E i \in DOMAIN futures : GeocodeAndPut(i)
    \/ \E i \in DOMAIN futures : Collect(i) /\ UNCHANGED <<cacheVars, distance_call>>
    \/ ScoreProject /\ UNCHANGED <<cacheVars, distance_call>>
    \/ SortAndReturn /\ UNCHANGED <<cacheVars, distance_call>>

\* The whole call, its pool workers on the shared venue cache.
OrderSpec == OrderInit /\ [][PoolNext]_vars

\* The whole call, on any input.
MatchSpec == MatchInit /\ [][MatchNext]_vars

\* The whole call, for a project without a geocoded venue.
TextSpec == TextInit /\ [][MatchNext]_vars

\* The whole call, with providers that give lists.
ListSpec == ListInit /\ [][MatchNext]_vars

\* ------------------------------------------------------ calculate_distance
\* Two points, each a latitude and a longitude that may be None.
Points ==
    {[latitude |-> lat, longitude |-> lon] :
        lat \in {<<>>, <<0>>, <<50>>, <<140>>, <<1849>>},
        lon \in VenueLongitudes}

\* A caller is about to ask for the distance from a to b and then for the
\* distance from b to a.
DistanceInit ==
    /\ api_key = TRUE
    /\ now = 0
    /\ started = 0
    /\ location_cache = <<>>
    /\ hospital_cache = <<>>
    /\ running = EmptyBag
    /\ returned = NoReturn
    /\ NoMatch
    /\ \E a, b \in Points :
         distance_call = [pc |-> "forth", a |-> a, b |-> b, forth |-> <<>>,
                          back |-> <<>>]

\* calculate_distance(a.latitude, a.longitude, b.latitude, b.longitude)
DistanceForth ==
    /\ distance_call.pc = "forth"
    /\ distance_call' =
         [distance_call EXCEPT
            !.pc = "back",
            !.forth = calculate_distance(
                distance_call.a.latitude, distance_call.a.longitude,
                distance_call.b.latitude, distance_call.b.longitude)]
    /\ UNCHANGED <<cacheVars, matchVars>>

\* calculate_distance(b.latitude, b.longitude, a.latitude, a.longitude)
DistanceBack ==
    /\ distance_call.pc = "back"
    /\ distance_call' =
         [distance_call EXCEPT
            !.pc = "done",
            !.back = calculate_distance(
                distance_call.b.latitude, distance_call.b.longitude,
                distance_call.a.latitude, distance_call.a.longitude)]
    /\ UNCHANGED <<cacheVars, matchVars>>

DistanceNext == DistanceForth \/ DistanceBack

\* calculate_distance alone, on any two points.
DistanceSpec == DistanceInit /\ [][DistanceNext]_vars

\* The batch, on the inputs with few venues.
BatchSpec == BatchInit /\ [][MatchNext]_vars

\* The steps of the batch (lines 454-560).
BatchNext ==
    \/ MatchEntry /\ UNCHANGED <<cacheVars, distance_call>>
    \/ FilterProjects /\ UNCHANGED <<cacheVars, distance_call>>
    \/ Submit /\ UNCHANGED <<cacheVars, distance_call>>
    \/ \E i \in DOMAIN futures : StartCall(i) /\ UNCHANGED <<cacheVars, distance_call>>
    \/ \E i \in DOMAIN futures : CallReturns(i) /\ UNCHANGED <<cacheVars, distance_call>>
    \/ \E i \in DOMAIN futures : CallRaises(i) /\ UNCHANGED <<cacheVars, distance_call>>
    \/ \E i \in DOMAIN futures : Collect(i) /\ UNCHANGED <<cacheVars, distance_call>>

\* The threads of the pool and the calling thread are scheduled, and every
\* request has a timeout (lines 168, 205, 252, 349): while the batch can
\* take a step, it takes one.
FairBatchSpec == BatchSpec /\ WF_vars(BatchNext)
\* ------------------------------------------------------------- properties
\* The call that returned in the last step was to fn and returned a value.
Done(fn) == returned.pc = "done" /\ returned.fn = fn

\* The call with frame f takes this step.
Took(f) == CopiesIn(f, running') < CopiesIn(f, running)

\* The record returned is a success record.
Success(value) == value # NoneValue /\ value.success

\* The priority order of the providers of get_location_by_ip.
Rank(provider) ==
    CASE provider = "amap" -> 1
      [] provider = "ipinfo" -> 2
      [] provider = "ipapi" -> 3
      [] OTHER -> 4

\* The records a provider can produce for an address.
Records(provider, ip) ==
    CASE provider = "amap" -> {AmapResult(ip)}
      [] provider = "ipinfo" -> {IpinfoResult(ip)}
      [] provider = "ipapi" -> {IpapiResult(ip, "ok"), IpapiResult(ip, "empty")}
      [] OTHER -> {IpsbResult(ip)}

\* C1: whenever no call is in flight, each cache holds no more entries than
\* its capacity.
C1_WithinCapacity ==
    running = EmptyBag =>
        /\ Len(location_cache) <= LocationCacheMax
        /\ Len(hospital_cache) <= HospitalCacheMax

\* A lookup of key k at time t returns the record v: the entry is there,
\* is fresh and holds v (lines 99-103, 318-322).
Finds(cache, k, v, t) ==
    /\ CacheHas(cache, k)
    /\ Fresh(CacheGet(cache, k).ts, t)
    /\ CacheGet(cache, k).val = v

\* C2: from the write of a put until the call that put returns, a lookup of
\* the key finds a record: no step takes the entry away while it is fresh,
\* neither the eviction of the put itself nor a step of another call.
C2_GetAfterPut ==
    [][\A f \in BagToSet(running) :
         /\ (/\ f.pc \in {"loc_len", "loc_min", "loc_min_end", "loc_evict"}
             /\ Finds(location_cache, f.key, f.rec, now')) =>
                CacheHas(location_cache', f.key)
         /\ (/\ f.pc \in {"hosp_len", "hosp_min", "hosp_min_end",
                        "hosp_evict"}
             /\ Finds(hospital_cache, f.key, f.rec, now')) =>
                CacheHas(hospital_cache', f.key)]_vars

\* The step takes cache to after by the removal of exactly one entry, one
\* of the smallest timestamp, and not that of key.
EvictsOldest(cache, after, key) ==
    /\ CacheHas(after, key)
    /\ \E i \in 1..Len(cache) :
         /\ after = SelectSeq(cache, LAMBDA e : e.key # cache[i].key)
         /\ \A j \in 1..Len(cache) : cache[i].ts <= cache[j].ts

\* C3: a put that has taken a cache over its capacity comes to evict, and
\* evicts exactly one entry, one of the smallest timestamp; the entry put
\* stays.
C3_EvictsExactlyOldest ==
    [][\A f \in BagToSet(running) : Took(f) =>
         /\ f.pc = "loc_min_end" =>
                BagIn([f EXCEPT !.pc = "loc_evict",
                                !.oldest = OldestKey(location_cache)],
                      running')
         /\ f.pc = "loc_evict" =>
                EvictsOldest(location_cache, location_cache', f.key)
         /\ f.pc = "hosp_min_end" =>
                BagIn([f EXCEPT !.pc = "hosp_evict",
                                !.oldest = OldestKey(hospital_cache)],
                      running')
         /\ f.pc = "hosp_evict" =>
                EvictsOldest(hospital_cache, hospital_cache', f.key)]_vars

\* C4: a lookup that has found a stale entry returns nothing from the cache,
\* removes the entry and goes on as a lookup that found no entry does.
C4_StaleIsMiss ==
    [][\A f \in BagToSet(running) : Took(f) =>
         /\ f.pc = "loc_delete" =>
                /\ ~CacheHas(location_cache', f.key)
                /\ BagIn([f EXCEPT !.pc = "loc_providers"], running')
         /\ f.pc = "hosp_delete" =>
                /\ ~CacheHas(hospital_cache', f.key)
                /\ BagIn([f EXCEPT !.pc = "hosp_geocode"], running')]_vars

\* The read of the call with frame f finds a fresh entry in this step, and
\* the call returns the record of the entry, having made no request.
FreshHit(f, cache) ==
    (Took(f) /\ CacheHas(cache, f.key)
             /\ Fresh(CacheGet(cache, f.key).ts, now)) =>
        /\ returned'.pc = "done"
        /\ returned'.ret = CacheGet(cache, f.key).val
        /\ returned'.calls = <<>>
        /\ running' = running (-) SetToBag({f})

\* C5: a call that finds a fresh entry for its key returns the record of
\* the entry and makes no provider request.
C5_FreshHitReturnsCached ==
    [][\A f \in BagToSet(running) :
         /\ f.pc = "loc_read" => FreshHit(f, location_cache)
         /\ f.pc = "hosp_read" => FreshHit(f, hospital_cache)]_vars

\* C5, witness: a call has returned a success record without any request.
C5_Witness ==
    /\ returned.pc = "done"
    /\ returned.calls = <<>>
    /\ Success(returned.ret)

\* C6: the requests of a get_location_by_ip that has returned were made in
\* the priority order, each provider at most once, none after a request
\* that succeeded, and the record returned is one of the first provider
\* that succeeded.
C6_ChainOrder ==
    Done("get_location_by_ip") =>
        LET c == returned.calls IN
        /\ \A i, j \in 1..Len(c) :
             i < j => /\ Rank(c[i].provider) < Rank(c[j].provider)
                      /\ ~c[i].ok
        /\ \A i \in 1..Len(c) :
             c[i].ok => returned.ret \in Records(c[i].provider, returned.key)

\* C7: when a call returns a success record that it has from a provider,
\* the record is in the cache under the key of the call.
C7_SuccessIsCached ==
    (returned.pc = "done" /\ returned.calls # <<>> /\ Success(returned.ret)) =>
        LET cache == IF returned.fn = "get_location_by_ip"
                     THEN location_cache ELSE hospital_cache
        IN  /\ CacheHas(cache, returned.key)
            /\ CacheGet(cache, returned.key).val = returned.ret

\* Every provider of the chain was asked and failed.
AllFailed(c) ==
    /\ c # <<>>
    /\ c[Len(c)].provider = "ipsb"
    /\ \A i \in 1..Len(c) : ~c[i].ok

\* C8: a get_location_by_ip all of whose providers failed returns a record
\* with success false, empty city, region and country, no coordinates, and
\* the address looked up in 'ip'.
C8_FailureRecord ==
    (Done("get_location_by_ip") /\ AllFailed(returned.calls)) =>
        /\ returned.ret.success = FALSE
        /\ returned.ret.city = ""
        /\ returned.ret.region = ""
        /\ returned.ret.country = ""
        /\ returned.ret.latitude = <<>>
        /\ returned.ret.longitude = <<>>
        /\ returned.ret.ip = returned.key

\* C8, witness: a call for an address has returned after the keyed provider
\* and the three free ones failed.
C8_Witness ==
    /\ Done("get_location_by_ip")
    /\ returned.key # ""
    /\ Len(returned.calls) = 4
    /\ AllFailed(returned.calls)

\* C9: no call ends with an exception that reaches the caller.
C9_NeverRaises == returned.pc # "raised"

\* The frames of the calls in flight and of the call that has returned.
Frames == BagToSet(running) \cup {returned}

\* C10: without an API key, get_hospital_location returns None at once,
\* with no request and no access to its cache, and get_location_by_ip makes
\* no request to the keyed provider: the first request of its chain is to
\* ipinfo.io.
C10_WithoutKey ==
    ~api_key =>
        /\ hospital_cache = <<>>
        /\ \A f \in BagToSet(running) : f.fn # "get_hospital_location"
        /\ returned.fn = "get_hospital_location" =>
               /\ returned.pc = "done"
               /\ returned.ret = NoneValue
               /\ returned.calls = <<>>
        /\ \A f \in Frames :
               /\ \A i \in 1..Len(f.calls) : f.calls[i].provider # "amap"
               /\ (f.key # "" /\ f.calls # <<>>) =>
                      f.calls[1].provider = "ipinfo"

\* C10, witness: without a key, a get_hospital_location has returned while
\* a get_location_by_ip that has made its first request is in flight.
C10_Witness ==
    /\ ~api_key
    /\ Done("get_hospital_location")
    /\ \E f \in BagToSet(running) : f.calls # <<>>

\* ------------------------------------- properties of the project matching
\* C11: when the client's location record has success = false, the call
\* returns the empty list, and it submits no geocoding call to the pool
\* (the only code that reads or writes the venue cache), records no venue
\* and scores no project.
C11_FailedClientReturnsEmpty ==
    ~location_info.success =>
        /\ match_pc \in {"entry", "done"}
        /\ match_pc = "done" => match_ret = <<>>
        /\ valid_projects = <<>>
        /\ futures = <<>>
        /\ hospital_locations = <<>>
        /\ idx = 0
        /\ matched_projects = <<>>

\* The call has returned for a client that was not located and a list with
\* a project that has a venue.
C11_Witness ==
    /\ ~location_info.success
    /\ match_pc = "done"
    /\ \E i \in DOMAIN projects : IsValid(projects[i])

\* The text is empty once the blanks around it are taken away.
BlankText(s) == \A i \in DOMAIN s : s[i] = " "

\* The project has no name and no venue name.
Blank(project) == BlankText(project.name) /\ BlankText(project.hospital_name)

\* The futures submitted for the project.
Dispatched(project) ==
    {j \in DOMAIN futures : valid_projects[j].id = project.id}

\* The projects of a list.
Range(list) == {list[i] : i \in DOMAIN list}

\* C12: a project whose name and venue name are both empty after trimming
\* is never submitted to the pool and is not in the list returned; every
\* other project (of a client that was located) is submitted exactly once:
\* never twice, and once by the time the collection begins.
C12_BlankNeverDispatched ==
    \A i \in DOMAIN projects :
        IF Blank(projects[i])
        THEN /\ Dispatched(projects[i]) = {}
             /\ match_pc = "done" => projects[i] \notin Range(match_ret)
        ELSE /\ Cardinality(Dispatched(projects[i])) <= 1
             /\ (location_info.success
                 /\ match_pc \in {"collect", "score", "done"})
                => Cardinality(Dispatched(projects[i])) = 1

\* The call has returned for a list with a blank project and another one.
C12_Witness ==
    /\ match_pc = "done"
    /\ location_info.success
    /\ \E i, j \in DOMAIN projects :
         /\ Blank(projects[i])
         /\ ~Blank(projects[j])
         /\ Cardinality(Dispatched(projects[j])) = 1

\* The futures the as_completed loop has seen.
Collected == {j \in DOMAIN futures : futures[j].state = "collected"}

DispatchedIds == {valid_projects[j].id : j \in DOMAIN futures}

\* The batch is over: the call is in the scoring loop or has returned.
BatchOver == match_pc \in {"score", "done"}

\* C14: when every call of the pool returns or raises and the threads are
\* scheduled, the batch ends; when it has ended the result map has one
\* entry for each project that was submitted (their ids are distinct) and
\* no other entry; and no project is scored before the batch has ended.
C14_BatchTerminates ==
    /\ <>BatchOver
    /\ [](BatchOver =>
            /\ DOMAIN hospital_locations = DispatchedIds
            /\ Cardinality(DispatchedIds) = Len(valid_projects)
            /\ \A j \in DOMAIN futures : futures[j].state = "collected")
    /\ [](~BatchOver => idx = 0 /\ matched_projects = <<>>)

\* The batch of more projects than workers has ended.
C14_Witness ==
    /\ match_pc = "score"
    /\ Len(valid_projects) > MaxWorkers
    /\ Cardinality(DOMAIN hospital_locations) = Len(valid_projects)

\* The calls of get_hospital_location that have begun and not ended.
Working == {j \in DOMAIN futures : futures[j].state = "running"}

\* C15: at any moment of a batch at most 5 calls of get_hospital_location
\* are in progress, and a call begins only in a state where fewer than 5
\* are in progress (a worker is free).
C15_AtMostFiveInProgress ==
    /\ [](Cardinality(Working) <= 5)
    /\ [][\A j \in DOMAIN futures :
            (futures[j].state = "queued" /\ futures'[j].state = "running")
            => Cardinality(Working) < 5]_vars

\* Five calls are in progress and a sixth one waits for a worker.
C15_Witness ==
    /\ Cardinality(Working) = 5
    /\ \E j \in DOMAIN futures : futures[j].state = "queued"

\* The final score of a project that was submitted: its score against what
\* was recorded for it, after the penalty.
FinalScore(project) ==
    ProjectScore(location_info, project, hospital_locations[project.id])

\* The number of times the project is in the list returned.
Times(project) ==
    Cardinality({i \in DOMAIN match_ret : match_ret[i] = project})

\* C16: of the projects that were submitted, the list returned has those
\* whose final score (after the penalty) is at least 10, once each, and
\* none whose final score is below 10.
C16_Threshold ==
    (match_pc = "done" /\ valid_projects # <<>>) =>
        \A j \in DOMAIN valid_projects :
            IF FinalScore(valid_projects[j]) >= 10
            THEN Times(valid_projects[j]) = 1
            ELSE Times(valid_projects[j]) = 0

\* A client abroad: a project with the final score 7 (10 before the
\* penalty) was left out and another one is in the list.
C16_Witness ==
    /\ match_pc = "done"
    /\ IsVpn(IpCountryLower(location_info))
    /\ \E i, j \in DOMAIN valid_projects :
         /\ FinalScore(valid_projects[i]) = 7
         /\ Times(valid_projects[i]) = 0
         /\ FinalScore(valid_projects[j]) >= 10
         /\ Times(valid_projects[j]) = 1

\* The distance of a project that was submitted, <<>> when it is unknown.
FinalDistance(project) ==
    ProjectDistance(location_info, hospital_locations[project.id])

\* Project p may stand before project q in the list returned.
InOrder(p, q) ==
    \/ FinalScore(p) > FinalScore(q)
    \/ /\ FinalScore(p) = FinalScore(q)
       /\ \/ FinalDistance(q) = <<>>
          \/ /\ FinalDistance(p) # <<>>
             /\ FinalDistance(p)[1] <= FinalDistance(q)[1]

\* C17: the list returned is in the order of the final score, highest
\* first; projects of equal score are in the order of the distance, nearest
\* first, those of unknown distance after those of known distance.
C17_Ordered ==
    match_pc = "done" =>
        \A i, j \in DOMAIN match_ret :
            i < j => InOrder(match_ret[i], match_ret[j])

\* The sort has moved a project before an earlier one of equal score and of
\* greater or unknown distance.
C17_Witness ==
    /\ match_pc = "done"
    /\ Len(match_ret) >= 2
    /\ match_ret[1].id > match_ret[2].id
    /\ FinalScore(match_ret[1]) = FinalScore(match_ret[2])
    /\ FinalDistance(match_ret[1]) # <<>>

\* What was recorded for a project in matched_projects: its score, or
\* nothing.
Recorded(project) ==
    {matched_projects[k].score :
        k \in {i \in DOMAIN matched_projects :
                 matched_projects[i].project = project}}

\* The score that stands for a project whose venue was geocoded, when its
\* city tier and its region tier are the amounts given.
Expected(venue, city_tier, region_tier) ==
    LET score == city_tier + region_tier
                 + DistanceTier(DistanceKm(location_info, venue))
    IN  IF IsVpn(IpCountryLower(location_info)) THEN VpnPenalty(score)
        ELSE score

\* What was recorded for a project as its distance.
RecordedDistance(project) ==
    {matched_projects[k].distance_km :
        k \in {i \in DOMAIN matched_projects :
                 matched_projects[i].project = project}}

\* The four rules of a dimension, as C18 words them: a and b are the raw
\* strings, an and bn the normalized ones.
RuleAsClaimed(k, a, b, an, bn) ==
    CASE k = 1 -> a = b
      [] k = 2 -> an = bn
      [] k = 3 -> Contains(a, b) \/ Contains(b, a)
      [] k = 4 -> Contains(an, bn) \/ Contains(bn, an)

\* The four rules as the code has them: a and b are the lowercased strings,
\* and a normalized string that is empty matches nothing.
RuleAsCoded(k, a, b, an, bn) ==
    CASE k = 1 -> a = b
      [] k = 2 -> an # <<>> /\ bn # <<>> /\ an = bn
      [] k = 3 -> Contains(a, b) \/ Contains(b, a)
      [] k = 4 -> an # <<>> /\ bn # <<>>
                  /\ (Contains(an, bn) \/ Contains(bn, an))

\* The amount of the first rule of a set of matching rules, 0 without one.
FirstOf(matching, points) ==
    IF matching = {} THEN 0
    ELSE points[CHOOSE k \in matching : \A m \in matching : k <= m]

CityPoints == <<50, 45, 40, 35>>
RegionPoints == <<30, 25, 20, 15>>

\* The tiers as C18 words them.
ClaimedCity(venue) ==
    LET a == Strip(location_info.city)
        b == Strip(venue.city)
    IN  FirstOf({k \in 1..4 :
                   RuleAsClaimed(k, a, b, CityNormalized(Lower(a)),
                                 CityNormalized(Lower(b)))}, CityPoints)

ClaimedRegion(venue) ==
    LET a == Strip(location_info.region)
        b == Strip(venue.region)
    IN  FirstOf({k \in 1..4 :
                   RuleAsClaimed(k, a, b, RegionNormalized(Lower(a)),
                                 RegionNormalized(Lower(b)))}, RegionPoints)

\* The tiers with the two changes: nothing for an empty string, and the
\* lowercased strings in the place of the raw ones.
AmendedCity(venue) ==
    LET a == Lower(Strip(location_info.city))
        b == Lower(Strip(venue.city))
    IN  IF a = <<>> \/ b = <<>> THEN 0
        ELSE FirstOf({k \in 1..4 :
                        RuleAsCoded(k, a, b, CityNormalized(a),
                                    CityNormalized(b))}, CityPoints)

AmendedRegion(venue) ==
    LET a == Lower(Strip(location_info.region))
        b == Lower(Strip(venue.region))
    IN  IF a = <<>> \/ b = <<>> THEN 0
        ELSE FirstOf({k \in 1..4 :
                        RuleAsCoded(k, a, b, RegionNormalized(a),
                                    RegionNormalized(b))}, RegionPoints)

\* The projects that were scored against a geocoded venue.
ScoredVenues ==
    {j \in DOMAIN valid_projects :
        /\ match_pc = "done"
        /\ Geocoded(hospital_locations[valid_projects[j].id])}

\* C18 as worded: against a geocoded venue the city tier is the amount of
\* the first of the rules exact raw match (+50), exact normalized match
\* (+45), raw substring (+40), normalized substring (+35) that matches,
\* +0 without one; the region tier likewise with +30, +25, +20, +15.
C18_AsClaimed ==
    \A j \in ScoredVenues :
        LET venue == hospital_locations[valid_projects[j].id]
            score == Expected(venue, ClaimedCity(venue), ClaimedRegion(venue))
        IN  Recorded(valid_projects[j]) = IF score >= 10 THEN {score} ELSE {}

\* C18 as amended: the tier of a dimension is +0 when the client's or the
\* venue's string is empty; else it is the amount of the first rule that
\* matches, the rules being: the lowercased strings are equal; the
\* normalized strings are not empty and equal; one lowercased string
\* contains the other; the normalized strings are not empty and one
\* contains the other.  One amount at most is added in a dimension.
C18_FirstMatchingRule ==
    \A j \in ScoredVenues :
        LET venue == hospital_locations[valid_projects[j].id]
            score == Expected(venue, AmendedCity(venue), AmendedRegion(venue))
        IN  Recorded(valid_projects[j]) = IF score >= 10 THEN {score} ELSE {}

\* A venue was scored whose city matches by the second rule and by the
\* third one, and whose region matches by the fourth rule only.
C18_Witness ==
    \E j \in ScoredVenues :
        LET venue == hospital_locations[valid_projects[j].id]
        IN  /\ AmendedCity(venue) = 45
            /\ Contains(Lower(Strip(venue.city)),
                        Lower(Strip(location_info.city)))
            /\ AmendedRegion(venue) = 15
            /\ Recorded(valid_projects[j]) # {}

\* The record has a latitude and a longitude.
Carries(record) == record.latitude # <<>> /\ record.longitude # <<>>

\* The distance in metres of two places that carry coordinates.  All
\* places are within two degrees of the equator: on one meridian the
\* distance is R * |delta_lat|, and on two meridians it is R * |delta_lon|
\* to within a thousandth (12 900 km for the two longitudes of the inputs).
GreatCircle(p, q) ==
    IF p.longitude = q.longitude
    THEN (MetresPerDegree * Abs(q.latitude[1] - p.latitude[1])) \div 1000
    ELSE (MetresPerDegree * Abs(q.longitude[1] - p.longitude[1])) \div 1000

\* The distance of the client and a venue, <<>> when one of them carries no
\* coordinates.
TrueDistance(venue) ==
    IF Carries(location_info) /\ Carries(venue)
    THEN <<GreatCircle(location_info, venue)>>
    ELSE <<>>

\* The amount C19 gives for a distance in metres.
Bucket(d) ==
    IF d = <<>> THEN 0
    ELSE IF d[1] <= 10000 THEN 30
    ELSE IF d[1] <= 50000 THEN 20
    ELSE IF d[1] <= 100000 THEN 10
    ELSE IF d[1] <= 200000 THEN 5
    ELSE 0

\* C19: when the client and the geocoded venue both carry coordinates, the
\* score is the city tier and the region tier and, on top of them, +30 for
\* a distance of at most 10 km, +20 for at most 50 km, +10 for at most
\* 100 km, +5 for at most 200 km, +0 beyond, and the distance recorded is
\* that distance; when one of them carries no coordinates nothing is added
\* and the distance recorded is unknown.
C19_DistanceTier ==
    \A j \in ScoredVenues :
        LET venue == hospital_locations[valid_projects[j].id]
            score == AmendedCity(venue) + AmendedRegion(venue)
                     + Bucket(TrueDistance(venue))
            final == IF IsVpn(IpCountryLower(location_info))
                     THEN VpnPenalty(score) ELSE score
        IN  /\ Recorded(valid_projects[j]) =
                 IF final >= 10 THEN {final} ELSE {}
            /\ RecordedDistance(valid_projects[j]) \subseteq
                 {TrueDistance(venue)}

\* The two venues differ in their coordinates only, and both have them.
SameText(v, w) ==
    /\ v.city = w.city
    /\ v.region = w.region
    /\ Carries(v)
    /\ Carries(w)

\* C20: of two geocoded venues with the same text fields, scored for the
\* same client, the one that is not farther from the client has no lower
\* score: what the distance tier adds at the distance d1 is at least what
\* it adds at d2 when d1 <= d2.
C20_CloserNeverLess ==
    \A i, j \in ScoredVenues :
        LET v == hospital_locations[valid_projects[i].id]
            w == hospital_locations[valid_projects[j].id]
        IN  (/\ Carries(location_info)
             /\ SameText(v, w)
             /\ GreatCircle(location_info, v) <= GreatCircle(location_info, w))
            => \A s \in Recorded(valid_projects[j]) :
                   \E t \in Recorded(valid_projects[i]) : t >= s

\* The projects that were scored without a geocoded venue.
ScoredTexts ==
    {j \in DOMAIN valid_projects :
        /\ match_pc = "done"
        /\ ~Geocoded(hospital_locations[valid_projects[j].id])}

\* The final score for an accumulated score.
Final(score) ==
    IF IsVpn(IpCountryLower(location_info)) THEN VpnPenalty(score) ELSE score

\* The text the names are searched in (line 677).
SearchText(project) ==
    Lower(Strip(project.name) \o <<" ">> \o Strip(project.hospital_name))

\* The rules of the city against the region hint in the order of C21:
\* exact, substring, normalized exact, normalized substring.
HintRule(k, a, b, an, bn) ==
    CASE k = 1 -> a = b
      [] k = 2 -> Contains(a, b) \/ Contains(b, a)
      [] k = 3 -> an = bn
      [] k = 4 -> Contains(an, bn) \/ Contains(bn, an)

HintPoints == <<30, 25, 28, 22>>

\* The text score as C21 words it.
ClaimedText(project) ==
    LET a == Strip(location_info.city)
        b == Strip(project.region)
        city == CityNormalized(Lower(a))
        region == RegionNormalized(Lower(Strip(location_info.region)))
    IN  FirstOf({k \in 1..4 :
                   HintRule(k, a, b, city, CityNormalized(Lower(b)))},
                HintPoints)
        + (IF Contains(city, SearchText(project)) THEN 15 ELSE 0)
        + (IF Contains(region, SearchText(project)) THEN 10 ELSE 0)

\* The text score with the changes: the strings are lowercased, an empty
\* string matches nothing, and a normalized city or region is looked for
\* in the names only when it has two characters or more.
AmendedText(project) ==
    LET a == Lower(Strip(location_info.city))
        b == Lower(Strip(project.region))
        city == CityNormalized(a)
        bn == CityNormalized(b)
        region == RegionNormalized(Lower(Strip(location_info.region)))
    IN  (IF a = <<>> \/ b = <<>> THEN 0
         ELSE FirstOf({k \in 1..4 :
                         /\ HintRule(k, a, b, city, bn)
                         /\ k \in {3, 4} => (city # <<>> /\ bn # <<>>)},
                      HintPoints))
        + (IF Len(city) >= 2 /\ Contains(city, SearchText(project))
           THEN 15 ELSE 0)
        + (IF Len(region) >= 2 /\ Contains(region, SearchText(project))
           THEN 10 ELSE 0)

\* C21 as worded: without a geocoded venue the score is one of +30 (the
\* client's city is the region hint), +25 (substring), +28 (normalized
\* exact), +22 (normalized substring) or +0, plus +15 if the normalized
\* city occurs in the names, plus +10 if the normalized region occurs in
\* the names; the distance is unknown.
C21_AsClaimed ==
    \A j \in ScoredTexts :
        LET score == Final(ClaimedText(valid_projects[j]))
        IN  /\ Recorded(valid_projects[j]) =
                 IF score >= 10 THEN {score} ELSE {}
            /\ RecordedDistance(valid_projects[j]) \subseteq {<<>>}

\* C21 as amended: the city tier is +0 when the client's city or the
\* region hint is empty, else the amount of the first rule that matches
\* (lowercased strings equal; one contains the other; normalized strings
\* not empty and equal; normalized strings not empty and one contains the
\* other); +15 and +10 are added for a normalized city and region of two
\* characters or more that occur in the lowercased names; the distance is
\* unknown.
C21_TextScore ==
    \A j \in ScoredTexts :
        LET score == Final(AmendedText(valid_projects[j]))
        IN  /\ Recorded(valid_projects[j]) =
                 IF score >= 10 THEN {score} ELSE {}
            /\ RecordedDistance(valid_projects[j]) \subseteq {<<>>}

\* A project without a geocoded venue was scored 28 + 15 + 10: its hint is
\* the client's city with another suffix, and the names have the city and
\* the region; the client has coordinates.
C21_Witness ==
    \E j \in ScoredTexts :
        /\ AmendedText(valid_projects[j]) = 53
        /\ Recorded(valid_projects[j]) = {53}
        /\ Carries(location_info)

\* The score a project has accumulated before the penalty.
Accumulated(project) ==
    IF Geocoded(hospital_locations[project.id])
    THEN VenueScore(location_info, hospital_locations[project.id])
    ELSE FallbackScore(location_info, project)

\* The client's country is known and does not name the home country.
Abroad ==
    LET country == Lower(Strip(location_info.country))
    IN  /\ country # <<>>
        /\ ~Contains(Lower(China), country)
        /\ ~Contains(<<"zhong", "guo">>, country)

\* C22: for a client abroad the accumulated score s of every project is
\* replaced by floor(0.7 * s), that is by (7 * s) div 10, before the
\* threshold test; for any other client it is left as it is.
C22_FloorOfSevenTenths ==
    match_pc = "done" =>
        \A j \in DOMAIN valid_projects :
            LET s == Accumulated(valid_projects[j])
                final == IF Abroad THEN (7 * s) \div 10 ELSE s
            IN  Recorded(valid_projects[j]) =
                    IF final >= 10 THEN {final} ELSE {}

\* C23: match_projects_by_location never raises to its caller, whatever
\* the providers answer for a project (an error, nothing, a venue, a venue
\* whose city or province is a list).
C23_MatchNeverRaises == match_pc # "raised"

\* C24: the distance from a to b is the distance from b to a, and the
\* distance from a point (one that has a latitude and a longitude) to
\* itself is 0.
C24_SymmetricAndZero ==
    distance_call.pc = "done" =>
        /\ distance_call.forth = distance_call.back
        /\ (distance_call.a = distance_call.b /\ Carries(distance_call.a))
           => distance_call.forth = <<0>>

\* C25: a record returned with success = True names a city or a region,
\* whichever provider of the chain it came from.
C25_SuccessNamesAPlace ==
    (returned.pc = "done" /\ returned.ret # NoneValue /\ returned.ret.success)
        => (returned.ret.city # "" \/ returned.ret.region # "")

\* C26: every value held in _location_cache and in _hospital_cache is a
\* record with success = True.
C26_OnlySuccessesCached ==
    /\ \A i \in 1..Len(location_cache) :
         /\ location_cache[i].val # NoneValue
         /\ location_cache[i].val.success
    /\ \A i \in 1..Len(hospital_cache) :
         /\ hospital_cache[i].val # NoneValue
         /\ hospital_cache[i].val.success

\* A resolve has failed for a key that another call has in the cache.
C26_Witness ==
    /\ returned.pc = "done"
    /\ returned.fn = "get_location_by_ip"
    /\ ~returned.ret.success
    /\ CacheHas(location_cache, returned.key)

\* C27: a call of get_hospital_location whose geocoding request was answered
\* with a venue returns that venue, whatever the other threads do to the
\* shared cache meanwhile.
C27_SuccessNeverLost ==
    (/\ returned.pc \in {"done", "raised"}
     /\ returned.fn = "get_hospital_location"
     /\ returned.calls # <<>>
     /\ returned.calls[Len(returned.calls)] = Call("geocode", TRUE))
        => (/\ returned.pc = "done"
            /\ returned.ret # NoneValue
            /\ returned.ret.success
            /\ returned.ret.formatted_address = returned.query)

\* C28: the venue a call of get_hospital_location returns, from the
\* geocoder or from the cache, is the geocoder's answer to the query of that
\* call (the city hint followed by the hospital or project name).
C28_OwnQuery ==
    (/\ returned.pc = "done"
     /\ returned.fn = "get_hospital_location"
     /\ returned.ret # NoneValue)
        => returned.ret.formatted_address = returned.query

\* C29: the country a provider writes into the record of an address of the
\* home country is one the scorer takes for the home country: no VPN
\* penalty for such a client.
C29_HomeClientNotPenalised ==
    (/\ returned.pc = "done"
     /\ returned.fn = "get_location_by_ip"
     /\ returned.ret.success
     /\ returned.key \in HomeIPs)
        => ~IsVpn(IpCountryLower([country |-> Characters(returned.ret.country)]))

\* What is recorded for a project that is scored against the geocoder's
\* answer to its own query.
OwnEntry(project) ==
    LET venue == GeocoderFinds(GeocodeQuery(project))
    IN  [project |-> project,
         score |-> ProjectScore(location_info, project, venue),
         distance_km |-> ProjectDistance(location_info, venue)]

\* The list returned when every project is scored against the answer to
\* its own query: it depends on the inputs alone.
OwnResult ==
    LET entries == [i \in DOMAIN valid_projects |-> OwnEntry(valid_projects[i])]
        sorted == Sorted(SelectSeq(entries, LAMBDA e : e.score >= 10))
    IN  [i \in DOMAIN sorted |-> sorted[i].project]

\* C30: for a client, a list of projects and a geocoder whose answer
\* depends on the query alone, the list returned is the same in whatever
\* order the pool workers start and complete: it is the list of the
\* projects scored in input order against the answers to their own queries.
C30_OrderIndependent ==
    match_pc = "done" => match_ret = OwnResult

====
